---- MODULE Spec2Model ----
(***************************************************************************)
(* srslte::inplace_task<R(Args...), Capacity, Alignment>                   *)
(* (lib/include/srslte/common/task.h): a move-only, type-erased callable   *)
(* stored in place, dispatched through a hand-built operation table.       *)
(*                                                                         *)
(* A program owns a set of containers of one instantiation, int(int).      *)
(* Each memory slot (a container's buffer, or swap's on-stack tmp) holds   *)
(* at most one live payload object.  Operations that the source performs   *)
(* in several statements are modelled statement by statement; pc is the    *)
(* statement about to run and call remembers the operation in progress     *)
(* (or the last one finished) together with the state it started from.     *)
(*                                                                         *)
(* Spec is that program.  Four smaller specifications follow what Spec     *)
(* takes as given: SpecAccept the static_asserts of the payload            *)
(* constructor over instantiations and payload types, SpecTables the       *)
(* static tables of get<Func>() under several threads, SpecStartup the     *)
(* dynamic initialisation of empty_oper, and SpecStack the test stack      *)
(* stack_test_dummy (unnamed/part_000) around its task scheduler.  Each    *)
(* leaves the variables of the others as they are.                         *)
(***************************************************************************)
EXTENDS Integers, FiniteSets, Sequences, TLC

\* ---------------------------------------------------------------- bounds
NumConts == 2      \* containers the program may own
MaxRelocs == 1     \* relocations one payload may go through
MaxCapacity == 12  \* largest Capacity an instantiation is given
MaxSize == 24      \* largest sizeof of a payload type
NumThreads == 2    \* threads that use containers of one instantiation
MaxGets == 2       \* containers one thread constructs from a payload
MaxTime == 10242   \* ticks the test stack's clock is followed for
MaxPending == 2    \* tasks pending in the test stack's scheduler

Conts == 1..NumConts
Args == {0, 1}     \* arguments of a call

\* The on-stack temporary of swap (storage_t tmp).
Tmp == 0
Slots == Conts \cup {Tmp}

\* ------------------------------------------------------- payloads, tables
\* Callable types of the program: F is a closure that captures x and returns
\* x + arg; G is a mutable closure that throws when x + arg = 1 and
\* otherwise returns x + arg and then flips x between 1 and 2.

\* A raw storage slot holding no live object.
NoObj == [type |-> "none", pid |-> 0, val |-> 0]

\* Template arguments T the payload constructor is instantiated with:
\* T = Func for an rvalue argument, T = const Func for a const rvalue.
\* (T = Func& does not build: get<Func&> forms a pointer to a reference.)
TParams == {[type |-> "F", cat |-> "rvalue"],
            [type |-> "F", cat |-> "const"],
            [type |-> "G", cat |-> "rvalue"]}

\* The value categories of the argument of inplace_task(T&& function).
ValueCategories == {"lvalue", "const_lvalue", "rvalue", "const_rvalue"}

\* The template argument T deduced for an argument of callable type type
\* and value category vc: Func&, const Func&, Func, const Func.
Deduced(type, vc) ==
  [type |-> type,
   cat |-> CASE vc = "lvalue" -> "ref"
             [] vc = "const_lvalue" -> "const_ref"
             [] vc = "rvalue" -> "rvalue"
             [] vc = "const_rvalue" -> "const"]

\* get<Func>() can be instantiated: its lambdas form Func*, which a reference
\* type does not allow, and call the Func, which a const G does not allow.
get_builds(T) ==
  /\ T.cat \notin {"ref", "const_ref"}
  /\ ~(T.type = "G" /\ T.cat = "const")

\* The callables the program constructs containers from, each stored in at
\* most one container at a time: two F given as rvalues, capturing 1 and 2,
\* an F given as a const rvalue, capturing 2, and a G given as an rvalue,
\* capturing 1.  A payload is named by its place in this list.
Callables == <<[T |-> [type |-> "F", cat |-> "rvalue"], val |-> 1],
               [T |-> [type |-> "F", cat |-> "rvalue"], val |-> 2],
               [T |-> [type |-> "F", cat |-> "const"], val |-> 2],
               [T |-> [type |-> "G", cat |-> "rvalue"], val |-> 1]>>

Pids == DOMAIN Callables

\* oper_table_t::get<Func>(): the address of the function-local static table
\* of that instantiation; its three operations act on a Func.
get(T) == [type |-> T.type, cat |-> T.cat]

\* oper_table_t::get_empty(): the sentinel table.
get_empty == [type |-> "empty", cat |-> "none"]

\* static oper_table_t* empty_oper = get_empty();
empty_oper == get_empty

\* The table pointer of a container that does not exist.
NoTable == [type |-> "null", cat |-> "none"]

Tables == {get(T) : T \in TParams} \cup {get_empty}

\* A result of operator(): a returned value, or the exception thrown.
NoResult == [kind |-> "none", val |-> 0]
Returned(v) == [kind |-> "value", val |-> v]
bad_function_call == [kind |-> "bad_function_call", val |-> 0]

\* The exception a payload itself throws when called.
payload_error == [kind |-> "payload_error", val |-> 0]

\* Calling a payload object directly: the result and the object afterwards.
CallFunc(obj, arg) ==
  IF obj.type = "G"
    THEN IF obj.val + arg = 1
           THEN [result |-> payload_error, obj |-> obj]
           ELSE [result |-> Returned(obj.val + arg),
                 obj |-> [obj EXCEPT !.val = 3 - obj.val]]
    ELSE [result |-> Returned(obj.val + arg), obj |-> obj]

\* ------------------------------------------------------------------ state
VARIABLES
  alive,        \* alive[c]: container c exists
  oper_ptr,     \* oper_ptr[c]: the table c is bound to
  buffer,       \* buffer[s]: the live object in slot s, or NoObj
  dtor_calls,   \* dtor_calls[p]: times a table's dtor destroyed payload p
  reloc_calls,  \* reloc_calls[p]: times a table's move relocated payload p
  counter,      \* counter[p]: times ~Func() ran on an object of payload p
  ub,           \* an operation was applied to a slot without a live Func
  leaked,       \* payloads overwritten without being destroyed
  direct,       \* direct[p]: payload p's twin, called directly by the program
  pc,           \* the statement about to run, "idle" between operations
  call          \* the operation in progress or last finished

vars == <<alive, oper_ptr, buffer, dtor_calls, reloc_calls, counter, ub, leaked,
          direct, pc, call>>

\* The instantiation: its template arguments Capacity and Alignment, and the
\* outcome of building its payload constructor for a payload type.
VARIABLES
  Capacity,     \* template argument Capacity, in bytes
  Alignment,    \* template argument Alignment
  FunT,         \* the payload type last built for: its sizeof and alignof
  built         \* whether that build was "accepted" or "rejected"

accept_vars == <<Capacity, Alignment, FunT, built>>

\* The static tables of get<Func>() as the threads of a program see them,
\* each thread owning one container.
VARIABLES
  t_inited,     \* t_inited[T]: static oper_table_t t{} of get<T> is initialised
  t_fields,     \* t_fields[T][f]: field f of that table: "null" or "set"
  t_writes,     \* t_writes[T][f]: assignments made to that field
  t_writers,    \* t_writers[T][f]: the threads that made them
  th_pc,        \* th_pc[th]: the statement thread th is at
  th_T,         \* th_T[th]: the template argument of the get<T>() th runs
  th_cont,      \* th_cont[th]: th's container: its table and stored type
  th_gets       \* th_gets[th]: calls of get<T>() th has made

table_vars == <<t_inited, t_fields, t_writes, t_writers, th_pc, th_T, th_cont,
                th_gets>>

\* Program start-up: the dynamic initialisation of the static pointer
\* empty_oper, and containers that are default-constructed before or after it.
VARIABLES
  empty_oper_ptr,  \* the value of the static pointer empty_oper
  sentinel_built,  \* get_empty() has filled the sentinel table
  in_main,         \* dynamic initialisation is over, main() runs
  g_oper_ptr,      \* g_oper_ptr[c]: oper_ptr of container c, NoTable if none
  g_ub,            \* a table operation was called through a null pointer
  g_last           \* the last operation on a container and its outcome

startup_vars == <<empty_oper_ptr, sentinel_built, in_main, g_oper_ptr, g_ub,
                  g_last>>

\* The test stack (stack_test_dummy) and its task scheduler.
VARIABLES
  cur_time,     \* the time of the scheduler's timer handler, in ticks
  pending,      \* the number of tasks pending in the scheduler
  seen,         \* the TTIs the tasks run by the last operation observed
  stack_last    \* the last operation on the stack, the time and TTI before it

stack_vars == <<cur_time, pending, seen, stack_last>>

\* What the program of containers leaves alone.
side_vars == <<accept_vars, table_vars, startup_vars, stack_vars>>

\* ---------------------------------------------------------------- storage
\* constexpr size_t default_buffer_size = 256;
default_buffer_size == 256

\* size_t Alignment = alignof(std::max_align_t)
alignof_max_align_t == 16

\* The alignments of the types of the program: powers of two.
Alignments == {1, 2, 4, 8}

\* The payload types a construction may be built for: sizeof is a multiple
\* of alignof.
FunTs == {[size |-> sz, align |-> al] : sz \in 1..MaxSize, al \in Alignments}
NoFunT == [size |-> 0, align |-> 0]

\* sizeof(storage_t), storage_t = std::aligned_storage<Capacity,
\* Alignment>::type: an object of alignment Alignment holding Capacity bytes;
\* as the size of an object is a multiple of its alignment, Capacity rounded
\* up to a multiple of Alignment.
sizeof_storage(Cap, Al) == ((Cap + Al - 1) \div Al) * Al

\* Mutant of Accepts: the size comparison is strict.
Accepts_strict(T, Cap, Al) ==
  /\ T.size < sizeof_storage(Cap, Al)
  /\ Al % T.align = 0

\* static_assert(sizeof(FunT) <= sizeof(buffer), ...);
\* static_assert(Alignment % alignof(FunT) == 0, ...);
Accepts(T, Cap, Al) ==
  /\ T.size <= sizeof_storage(Cap, Al)
  /\ Al % T.align = 0

\* The memory the table operations act on.
Mem == [buffer |-> buffer, dtor_calls |-> dtor_calls,
        reloc_calls |-> reloc_calls, counter |-> counter, ub |-> ub,
        leaked |-> leaked]

SetMem(m) ==
  /\ buffer' = m.buffer
  /\ dtor_calls' = m.dtor_calls
  /\ reloc_calls' = m.reloc_calls
  /\ counter' = m.counter
  /\ ub' = m.ub
  /\ leaked' = m.leaked

\* Slot s holds a live object of the type table t was built for.
HoldsFunc(t, s, m) == m.buffer[s] # NoObj /\ m.buffer[s].type = t.type

\* Outcomes of an operation applied to a slot that holds no live Func
\* (undefined behaviour): the slot is left as it was, or is wiped.
Undefined(s, m) ==
  {[m EXCEPT !.ub = TRUE], [m EXCEPT !.ub = TRUE, !.buffer[s] = NoObj]}

\* --------------------------------------------- operations of the tables
\* Mutant of empty_call: the sentinel's call returns a value.
empty_call_returns(src, arg, m) == {[mem |-> m, result |-> Returned(0)]}

\* get_empty(): t.call throws std::bad_function_call.
empty_call(src, arg, m) == {[mem |-> m, result |-> bad_function_call]}

\* get_empty(): t.move = [](void*, void*) {}.
empty_move(src, dest, m) == {m}

\* get_empty(): t.dtor = [](void*) {}.
empty_dtor(src, m) == {m}

\* Mutant of func_call: a payload table's call throws as the sentinel's does.
func_call_throws(t, src, arg, m) == {[mem |-> m, result |-> bad_function_call]}

\* Mutant of func_call: the call runs on a copy of the Func living in src.
func_call_on_copy(t, src, arg, m) ==
  IF HoldsFunc(t, src, m)
    THEN {[mem |-> m, result |-> CallFunc(m.buffer[src], arg).result]}
    ELSE {[mem |-> u, result |-> res] :
            u \in Undefined(src, m), res \in {NoResult, Returned(0)}}

\* get<Func>(): t.call calls the Func living in src.
func_call(t, src, arg, m) ==
  IF HoldsFunc(t, src, m)
    THEN LET r == CallFunc(m.buffer[src], arg)
         IN  {[mem |-> [m EXCEPT !.buffer[src] = r.obj], result |-> r.result]}
    ELSE {[mem |-> u, result |-> res] :
            u \in Undefined(src, m), res \in {NoResult, Returned(0)}}

\* get<Func>(): t.move constructs a Func in dest from the one in src (by move,
\* or by copy when Func is const-qualified), then destroys the one in src.
func_move(t, src, dest, m) ==
  IF HoldsFunc(t, src, m)
    THEN LET obj == m.buffer[src]
             old == m.buffer[dest]
         IN  {[m EXCEPT !.buffer[dest] = obj,
                        !.buffer[src] = NoObj,
                        !.reloc_calls[obj.pid] = @ + 1,
                        !.counter[obj.pid] = @ + 1,
                        !.leaked = IF old # NoObj THEN @ \cup {old.pid} ELSE @]}
    ELSE Undefined(dest, m)

\* get<Func>(): t.dtor destroys the Func living in src.
func_dtor(t, src, m) ==
  IF HoldsFunc(t, src, m)
    THEN {[m EXCEPT !.buffer[src] = NoObj,
                    !.dtor_calls[m.buffer[src].pid] = @ + 1,
                    !.counter[m.buffer[src].pid] = @ + 1]}
    ELSE Undefined(src, m)

\* oper_ptr->call(&buffer, args...), oper_ptr->move(src, dest) and
\* oper_ptr->dtor(&buffer): a call through the table pointer t.  A null
\* pointer dereference is undefined.
table_call(t, src, arg, m) ==
  IF t = get_empty THEN empty_call(src, arg, m)
  ELSE IF t = NoTable
    THEN {[mem |-> u, result |-> NoResult] : u \in Undefined(src, m)}
  ELSE func_call(t, src, arg, m)

table_move(t, src, dest, m) ==
  IF t = get_empty THEN empty_move(src, dest, m)
  ELSE IF t = NoTable THEN Undefined(dest, m)
  ELSE func_move(t, src, dest, m)

table_dtor(t, src, m) ==
  IF t = get_empty THEN empty_dtor(src, m)
  ELSE IF t = NoTable THEN Undefined(src, m)
  ELSE func_dtor(t, src, m)

\* bool is_empty() const
is_empty(c) == oper_ptr[c] = empty_oper

\* ------------------------------------------------------------ bookkeeping
\* The payloads live in some slot, and whether p is one.
LivePids == {buffer[s].pid : s \in Slots} \ {NoObj.pid}
Live(p) == p \in LivePids

\* When an operation starts, the counts of the payloads whose lifetime ended
\* before it are dropped, and so are their twins.
Forget(count) ==
  LET live == LivePids
  IN  [p \in Pids |-> IF p \in live THEN count[p] ELSE 0]

StartMem ==
  [buffer |-> buffer, dtor_calls |-> Forget(dtor_calls),
   reloc_calls |-> Forget(reloc_calls), counter |-> Forget(counter),
   ub |-> ub, leaked |-> leaked]

StartDirect == Forget(direct)

\* The state an operation starts from.
Pre == [oper_ptr |-> oper_ptr, buffer |-> buffer,
        dtor_calls |-> Forget(dtor_calls),
        reloc_calls |-> Forget(reloc_calls), counter |-> Forget(counter),
        direct |-> Forget(direct)]

\* The record of an operation: what was called, on which containers, and
\* the state it started from; operator() adds its outcome.
Begin(op, self, other, arg) ==
  [op |-> op, self |-> self, other |-> other, arg |-> arg,
   result |-> NoResult, direct_result |-> NoResult, pre |-> Pre]

\* The payload in c's slot may be relocated once more.
RelocOk(c) ==
  IF buffer[c] = NoObj THEN TRUE ELSE reloc_calls[buffer[c].pid] < MaxRelocs

\* No container exists.
NoConts ==
  /\ alive = [c \in Conts |-> FALSE]
  /\ oper_ptr = [c \in Conts |-> NoTable]
  /\ buffer = [s \in Slots |-> NoObj]
  /\ dtor_calls = [p \in Pids |-> 0]
  /\ reloc_calls = [p \in Pids |-> 0]
  /\ counter = [p \in Pids |-> 0]
  /\ ub = FALSE
  /\ leaked = {}
  /\ direct = [p \in Pids |-> 0]
  /\ pc = "idle"
  /\ call = Begin("none", 0, 0, 0)

\* The instantiation with the default Capacity and Alignment.
DefaultInstantiation ==
  /\ Capacity = default_buffer_size
  /\ Alignment = alignof_max_align_t
  /\ FunT = NoFunT
  /\ built = "none"

\* The threads of a program and the fields of a table.
Threads == 1..NumThreads
Fields == {"call", "move", "dtor"}

\* A container that does not exist.
NoCont == [oper_ptr |-> NoTable, stored |-> "none"]

\* No get<T>() has run and no thread owns a container.
NoTables ==
  /\ t_inited = [T \in TParams |-> FALSE]
  /\ t_fields = [T \in TParams |-> [f \in Fields |-> "null"]]
  /\ t_writes = [T \in TParams |-> [f \in Fields |-> 0]]
  /\ t_writers = [T \in TParams |-> [f \in Fields |-> {}]]
  /\ th_pc = [th \in Threads |-> "idle"]
  /\ th_T = [th \in Threads |-> NoTable]
  /\ th_cont = [th \in Threads |-> NoCont]
  /\ th_gets = [th \in Threads |-> 0]

\* The null pointer: the value of a static pointer before its dynamic
\* initialisation.
nullptr == [type |-> "nullptr", cat |-> "none"]

\* An operation on a container at start-up, and no such operation.
Did(op, c, result) == [op |-> op, self |-> c, result |-> result]
NoOp == Did("none", 0, "none")

\* Start-up is over: empty_oper points to the sentinel, main() runs.
AfterStartup ==
  /\ empty_oper_ptr = get_empty
  /\ sentinel_built = TRUE
  /\ in_main = TRUE
  /\ g_oper_ptr = [c \in Conts |-> NoTable]
  /\ g_ub = FALSE
  /\ g_last = NoOp

\* stack_test_dummy(): the scheduler's clock at zero, no task pending.
StackOp(op, time, tti) == [op |-> op, time |-> time, tti |-> tti]

NewStack ==
  /\ cur_time = 0
  /\ pending = 0
  /\ seen = {}
  /\ stack_last = StackOp("none", 0, 0)

\* The program of containers: one thread, one instantiation, after start-up.
Init ==
  /\ NoConts
  /\ DefaultInstantiation
  /\ NoTables
  /\ AfterStartup
  /\ NewStack

\* ------------------------------------------------------------- operations
\* inplace_task() noexcept { oper_ptr = oper_table_t::empty_oper; }
inplace_task_default(self) ==
  /\ pc = "idle"
  /\ ~alive[self]
  /\ alive' = [alive EXCEPT ![self] = TRUE]
  /\ oper_ptr' = [oper_ptr EXCEPT ![self] = empty_oper]
  /\ call' = Begin("default_ctor", self, 0, 0)
  /\ SetMem(StartMem)
  /\ direct' = StartDirect
  /\ UNCHANGED pc
  /\ UNCHANGED side_vars

\* inplace_task(T&& function): ::new (&buffer) FunT{...};
\* oper_ptr = oper_table_t::template get<T>();
inplace_task_from(self, p) ==
  /\ pc = "idle"
  /\ ~alive[self]
  /\ ~Live(p)
  /\ alive' = [alive EXCEPT ![self] = TRUE]
  /\ SetMem([StartMem EXCEPT
               !.buffer[self] = [type |-> Callables[p].T.type, pid |-> p,
                                 val |-> Callables[p].val],
               !.leaked = IF buffer[self] # NoObj
                            THEN @ \cup {buffer[self].pid} ELSE @])
  /\ oper_ptr' = [oper_ptr EXCEPT ![self] = get(Callables[p].T)]
  /\ direct' = [StartDirect EXCEPT ![p] = Callables[p].val]
  /\ call' = Begin("payload_ctor", self, 0, 0)
  /\ UNCHANGED pc
  /\ UNCHANGED side_vars

\* inplace_task(inplace_task&& other): oper_ptr = other.oper_ptr;
inplace_task_move_L119(self, other) ==
  /\ pc = "idle"
  /\ ~alive[self]
  /\ alive[other]
  /\ RelocOk(other)
  /\ alive' = [alive EXCEPT ![self] = TRUE]
  /\ oper_ptr' = [oper_ptr EXCEPT ![self] = oper_ptr[other]]
  /\ pc' = "move_ctor_120"
  /\ call' = Begin("move_ctor", self, other, 0)
  /\ SetMem(StartMem)
  /\ direct' = StartDirect
  /\ UNCHANGED side_vars

\* Mutant of inplace_task_move_L120: the source keeps its table.
inplace_task_move_L120_skip ==
  /\ pc = "move_ctor_120"
  /\ pc' = "move_ctor_121"
  /\ UNCHANGED <<alive, oper_ptr, buffer, dtor_calls, reloc_calls, counter, ub,
                 leaked, direct, call>>
  /\ UNCHANGED side_vars

\* other.oper_ptr = oper_table_t::empty_oper;
inplace_task_move_L120 ==
  /\ pc = "move_ctor_120"
  /\ oper_ptr' = [oper_ptr EXCEPT ![call.other] = empty_oper]
  /\ pc' = "move_ctor_121"
  /\ UNCHANGED <<alive, buffer, dtor_calls, reloc_calls, counter, ub, leaked,
                 direct, call>>
  /\ UNCHANGED side_vars

\* Mutant of inplace_task_move_L121: the relocation goes through the table
\* the source is bound to when it runs.
inplace_task_move_L121_other_table ==
  /\ pc = "move_ctor_121"
  /\ \E m \in table_move(oper_ptr[call.other], call.other, call.self, Mem) :
       SetMem(m)
  /\ pc' = "idle"
  /\ UNCHANGED <<alive, oper_ptr, direct, call>>
  /\ UNCHANGED side_vars

\* oper_ptr->move(&other.buffer, &buffer);
inplace_task_move_L121 ==
  /\ pc = "move_ctor_121"
  /\ \E m \in table_move(oper_ptr[call.self], call.other, call.self, Mem) :
       SetMem(m)
  /\ pc' = "idle"
  /\ UNCHANGED <<alive, oper_ptr, direct, call>>
  /\ UNCHANGED side_vars

\* ~inplace_task() { oper_ptr->dtor(&buffer); }
destroy_inplace_task(self) ==
  /\ pc = "idle"
  /\ alive[self]
  /\ \E m \in table_dtor(oper_ptr[self], self, StartMem) : SetMem(m)
  /\ alive' = [alive EXCEPT ![self] = FALSE]
  /\ oper_ptr' = [oper_ptr EXCEPT ![self] = NoTable]
  /\ call' = Begin("dtor", self, 0, 0)
  /\ direct' = StartDirect
  /\ UNCHANGED pc
  /\ UNCHANGED side_vars

\* Mutant of operator_assign_L134: the destination's payload is not destroyed.
operator_assign_L134_nodtor(self, other) ==
  /\ pc = "idle"
  /\ alive[self]
  /\ alive[other]
  /\ RelocOk(other)
  /\ SetMem(StartMem)
  /\ pc' = "assign_135"
  /\ call' = Begin("move_assign", self, other, 0)
  /\ direct' = StartDirect
  /\ UNCHANGED <<alive, oper_ptr>>
  /\ UNCHANGED side_vars

\* Mutant of operator_assign_L134: the destination's payload is destroyed
\* through the source's table, as if the table had been adopted first.
operator_assign_L134_adopted(self, other) ==
  /\ pc = "idle"
  /\ alive[self]
  /\ alive[other]
  /\ RelocOk(other)
  /\ \E m \in table_dtor(oper_ptr[other], self, StartMem) : SetMem(m)
  /\ pc' = "assign_135"
  /\ call' = Begin("move_assign", self, other, 0)
  /\ direct' = StartDirect
  /\ UNCHANGED <<alive, oper_ptr>>
  /\ UNCHANGED side_vars

\* operator=(inplace_task&& other): oper_ptr->dtor(&buffer);
operator_assign_L134(self, other) ==
  /\ pc = "idle"
  /\ alive[self]
  /\ alive[other]
  /\ RelocOk(other)
  /\ \E m \in table_dtor(oper_ptr[self], self, StartMem) : SetMem(m)
  /\ pc' = "assign_135"
  /\ call' = Begin("move_assign", self, other, 0)
  /\ direct' = StartDirect
  /\ UNCHANGED <<alive, oper_ptr>>
  /\ UNCHANGED side_vars

\* oper_ptr = other.oper_ptr;
operator_assign_L135 ==
  /\ pc = "assign_135"
  /\ oper_ptr' = [oper_ptr EXCEPT ![call.self] = oper_ptr[call.other]]
  /\ pc' = "assign_136"
  /\ UNCHANGED <<alive, buffer, dtor_calls, reloc_calls, counter, ub, leaked,
                 direct, call>>
  /\ UNCHANGED side_vars

\* Mutant of operator_assign_L136: the source keeps its table.
operator_assign_L136_skip ==
  /\ pc = "assign_136"
  /\ pc' = "assign_137"
  /\ UNCHANGED <<alive, oper_ptr, buffer, dtor_calls, reloc_calls, counter, ub,
                 leaked, direct, call>>
  /\ UNCHANGED side_vars

\* other.oper_ptr = oper_table_t::empty_oper;
operator_assign_L136 ==
  /\ pc = "assign_136"
  /\ oper_ptr' = [oper_ptr EXCEPT ![call.other] = empty_oper]
  /\ pc' = "assign_137"
  /\ UNCHANGED <<alive, buffer, dtor_calls, reloc_calls, counter, ub, leaked,
                 direct, call>>
  /\ UNCHANGED side_vars

\* Mutant of operator_assign_L137: the relocation goes through the table the
\* source was bound to when the assignment started.
operator_assign_L137_pre_table ==
  /\ pc = "assign_137"
  /\ \E m \in table_move(call.pre.oper_ptr[call.other], call.other, call.self,
                          Mem) :
       SetMem(m)
  /\ pc' = "idle"
  /\ UNCHANGED <<alive, oper_ptr, direct, call>>
  /\ UNCHANGED side_vars

\* oper_ptr->move(&other.buffer, &buffer); return *this;
operator_assign_L137 ==
  /\ pc = "assign_137"
  /\ \E m \in table_move(oper_ptr[call.self], call.other, call.self, Mem) :
       SetMem(m)
  /\ pc' = "idle"
  /\ UNCHANGED <<alive, oper_ptr, direct, call>>
  /\ UNCHANGED side_vars

\* The program calls the twin of the payload in slot s directly with arg:
\* the twin's result and captured value afterwards.
DirectCall(s, arg) ==
  IF buffer[s] = NoObj
    THEN [result |-> NoResult, direct |-> StartDirect]
    ELSE LET p == buffer[s].pid
             r == CallFunc([buffer[s] EXCEPT !.val = direct[p]], arg)
         IN  [result |-> r.result,
              direct |-> [StartDirect EXCEPT ![p] = r.obj.val]]

\* R operator()(Args&&... args) { return oper_ptr->call(&buffer, args...); }
operator_call(self, arg) ==
  /\ pc = "idle"
  /\ alive[self]
  /\ \E r \in table_call(oper_ptr[self], self, arg, StartMem) :
       /\ SetMem(r.mem)
       /\ call' = [Begin("call", self, 0, arg) EXCEPT
                     !.result = r.result,
                     !.direct_result = DirectCall(self, arg).result]
  /\ direct' = DirectCall(self, arg).direct
  /\ UNCHANGED <<alive, oper_ptr, pc>>
  /\ UNCHANGED side_vars

\* Mutant of is_self_swap: the guard is missing.
is_self_swap_never(self, other) == FALSE

\* swap: if (this == &other)
is_self_swap(self, other) == self = other

\* void swap(inplace_task& other): if (this == &other) return;
swap_L157(self, other) ==
  /\ pc = "idle"
  /\ alive[self]
  /\ alive[other]
  /\ IF is_self_swap(self, other) THEN TRUE
                                  ELSE RelocOk(self) /\ RelocOk(other)
  /\ pc' = IF is_self_swap(self, other) THEN "idle" ELSE "swap_161"
  /\ call' = Begin("swap", self, other, 0)
  /\ SetMem(StartMem)
  /\ direct' = StartDirect
  /\ UNCHANGED <<alive, oper_ptr>>
  /\ UNCHANGED side_vars

\* storage_t tmp; oper_ptr->move(&buffer, &tmp);
swap_L161 ==
  /\ pc = "swap_161"
  /\ \E m \in table_move(oper_ptr[call.self], call.self, Tmp, Mem) : SetMem(m)
  /\ pc' = "swap_162"
  /\ UNCHANGED <<alive, oper_ptr, direct, call>>
  /\ UNCHANGED side_vars

\* Mutant of swap_L162: other's slot is relocated through this's table.
swap_L162_this_table ==
  /\ pc = "swap_162"
  /\ \E m \in table_move(oper_ptr[call.self], call.other, call.self, Mem) :
       SetMem(m)
  /\ pc' = "swap_163"
  /\ UNCHANGED <<alive, oper_ptr, direct, call>>
  /\ UNCHANGED side_vars

\* other.oper_ptr->move(&other.buffer, &buffer);
swap_L162 ==
  /\ pc = "swap_162"
  /\ \E m \in table_move(oper_ptr[call.other], call.other, call.self, Mem) :
       SetMem(m)
  /\ pc' = "swap_163"
  /\ UNCHANGED <<alive, oper_ptr, direct, call>>
  /\ UNCHANGED side_vars

\* Mutant of swap_L163: tmp is relocated through other's table.
swap_L163_other_table ==
  /\ pc = "swap_163"
  /\ \E m \in table_move(oper_ptr[call.other], Tmp, call.other, Mem) : SetMem(m)
  /\ pc' = "swap_164"
  /\ UNCHANGED <<alive, oper_ptr, direct, call>>
  /\ UNCHANGED side_vars

\* oper_ptr->move(&tmp, &other.buffer);
swap_L163 ==
  /\ pc = "swap_163"
  /\ \E m \in table_move(oper_ptr[call.self], Tmp, call.other, Mem) : SetMem(m)
  /\ pc' = "swap_164"
  /\ UNCHANGED <<alive, oper_ptr, direct, call>>
  /\ UNCHANGED side_vars

\* Mutant of swap_L164: the table pointers are not exchanged.
swap_L164_noswap ==
  /\ pc = "swap_164"
  /\ pc' = "idle"
  /\ UNCHANGED <<alive, oper_ptr, buffer, dtor_calls, reloc_calls, counter, ub,
                 leaked, direct, call>>
  /\ UNCHANGED side_vars

\* std::swap(oper_ptr, other.oper_ptr);
swap_L164 ==
  /\ pc = "swap_164"
  /\ oper_ptr' = [oper_ptr EXCEPT ![call.self] = oper_ptr[call.other],
                                  ![call.other] = oper_ptr[call.self]]
  /\ pc' = "idle"
  /\ UNCHANGED <<alive, buffer, dtor_calls, reloc_calls, counter, ub, leaked,
                 direct, call>>
  /\ UNCHANGED side_vars

Next ==
  \/ \E self \in Conts : inplace_task_default(self)
  \/ \E self \in Conts, p \in Pids : inplace_task_from(self, p)
  \/ \E self \in Conts, other \in Conts : inplace_task_move_L119(self, other)
  \/ inplace_task_move_L120
  \/ inplace_task_move_L121
  \/ \E self \in Conts : destroy_inplace_task(self)
  \/ \E self \in Conts, other \in Conts : operator_assign_L134(self, other)
  \/ operator_assign_L135
  \/ operator_assign_L136
  \/ operator_assign_L137
  \/ \E self \in Conts, arg \in Args : operator_call(self, arg)
  \/ \E self \in Conts, other \in Conts : swap_L157(self, other)
  \/ swap_L161
  \/ swap_L162
  \/ swap_L163
  \/ swap_L164

Spec == Init /\ [][Next]_vars

\* Between operations: no operation is in progress.
Idle == pc = "idle"

\* ------------------------------------------- building the payload constructor
\* Building inplace_task(T&& function) of an instantiation for a payload type
\* T: the two static_asserts accept the type or reject the build.
build_inplace_task_from(T) ==
  /\ T.size % T.align = 0
  /\ FunT' = T
  /\ built' = IF Accepts(T, Capacity, Alignment) THEN "accepted"
                                                 ELSE "rejected"
  /\ UNCHANGED <<Capacity, Alignment, vars, table_vars, startup_vars,
                 stack_vars>>

\* Any instantiation, and no payload type built for yet.
InitAccept ==
  /\ NoConts
  /\ NoTables
  /\ AfterStartup
  /\ NewStack
  /\ Capacity \in 1..MaxCapacity
  /\ Alignment \in Alignments
  /\ FunT = NoFunT
  /\ built = "none"

NextAccept == \E T \in FunTs : build_inplace_task_from(T)

SpecAccept == InitAccept /\ [][NextAccept]_accept_vars

\* ----------------------------------------- the static tables under threads
\* What the other programs own.
not_tables == <<vars, accept_vars, startup_vars, stack_vars>>

\* The access to a field of a table that thread th is in the middle of.
NoAccess == [table |-> NoTable, field |-> "none", kind |-> "none"]

Access(th) ==
  CASE th_pc[th] = "get_59_w" ->
         [table |-> th_T[th], field |-> "call", kind |-> "write"]
    [] th_pc[th] = "get_60_w" ->
         [table |-> th_T[th], field |-> "move", kind |-> "write"]
    [] th_pc[th] = "get_65_w" ->
         [table |-> th_T[th], field |-> "dtor", kind |-> "write"]
    [] th_pc[th] = "call_151_r" ->
         [table |-> th_cont[th].oper_ptr, field |-> "call", kind |-> "read"]
    [] th_pc[th] = "move_121_r" ->
         [table |-> th_cont[th].oper_ptr, field |-> "move", kind |-> "read"]
    [] th_pc[th] = "dtor_130_r" ->
         [table |-> th_cont[th].oper_ptr, field |-> "dtor", kind |-> "read"]
    [] OTHER -> NoAccess

\* Thread th goes from statement from to statement to.
Goto(th, from, to) ==
  /\ th_pc[th] = from
  /\ th_pc' = [th_pc EXCEPT ![th] = to]

\* inplace_task(T&& function): ::new (&buffer) FunT{std::forward<T>(function)};
\* then oper_table_t::template get<T>() is called.
inplace_task_from_L113(th, T) ==
  /\ Goto(th, "idle", "get_58")
  /\ th_cont[th] = NoCont
  /\ th_gets[th] < MaxGets
  /\ th_gets' = [th_gets EXCEPT ![th] = @ + 1]
  /\ th_T' = [th_T EXCEPT ![th] = T]
  /\ th_cont' = [th_cont EXCEPT ![th].stored = T.type]
  /\ UNCHANGED <<t_inited, t_fields, t_writes, t_writers, not_tables>>

\* get<Func>(): static oper_table_t t{}; the first thread to come here
\* value-initialises the table, under the guard of the local static.
get_L58(th) ==
  /\ Goto(th, "get_58", "get_59")
  /\ t_inited' = [t_inited EXCEPT ![th_T[th]] = TRUE]
  /\ UNCHANGED <<t_fields, t_writes, t_writers, th_T, th_cont, th_gets, not_tables>>

\* Thread th starts the assignment to a field of its table.
BeginWrite(th, from, to) ==
  /\ Goto(th, from, to)
  /\ UNCHANGED <<t_inited, t_fields, t_writes, t_writers, th_T, th_cont,
                 th_gets, not_tables>>

\* Thread th completes the assignment to field f of its table.
EndWrite(th, from, to, f) ==
  /\ Goto(th, from, to)
  /\ t_fields' = [t_fields EXCEPT ![th_T[th]][f] = "set"]
  /\ t_writes' = [t_writes EXCEPT ![th_T[th]][f] = @ + 1]
  /\ t_writers' = [t_writers EXCEPT ![th_T[th]][f] = @ \cup {th}]
  /\ UNCHANGED <<t_inited, th_T, th_cont, th_gets, not_tables>>

\* t.call = [](void* src, Args&&... args) -> R { ... };
get_L59(th) ==
  /\ th \in Threads
  /\ BeginWrite(th, "get_59", "get_59_w")
get_L59_done(th) ==
  /\ th \in Threads
  /\ EndWrite(th, "get_59_w", "get_60", "call")

\* t.move = [](void* src, void* dest) -> void { ... };
get_L60(th) ==
  /\ th \in Threads
  /\ BeginWrite(th, "get_60", "get_60_w")
get_L60_done(th) ==
  /\ th \in Threads
  /\ EndWrite(th, "get_60_w", "get_65", "move")

\* t.dtor = [](void* src) -> void { ... };
get_L65(th) ==
  /\ th \in Threads
  /\ BeginWrite(th, "get_65", "get_65_w")
get_L65_done(th) ==
  /\ th \in Threads
  /\ EndWrite(th, "get_65_w", "ctor_114", "dtor")

\* return &t; and the constructor's oper_ptr = ...;
inplace_task_from_L114(th) ==
  /\ Goto(th, "ctor_114", "idle")
  /\ th_cont' = [th_cont EXCEPT ![th].oper_ptr = get(th_T[th])]
  /\ UNCHANGED <<t_inited, t_fields, t_writes, t_writers, th_T, th_gets, not_tables>>

\* Thread th starts an operation on its container that reads a field of the
\* container's table: operator() reads call, the move constructor of a new
\* container reads move, the destructor reads dtor.
BeginRead(th, to) ==
  /\ Goto(th, "idle", to)
  /\ th_cont[th].oper_ptr # NoTable
  /\ UNCHANGED <<t_inited, t_fields, t_writes, t_writers, th_T, th_cont,
                 th_gets, not_tables>>

\* R operator()(Args&&... args) { return oper_ptr->call(&buffer, ...); }
operator_call_L151(th) ==
  /\ th \in Threads
  /\ BeginRead(th, "call_151_r")

\* inplace_task(inplace_task&& other): oper_ptr->move(&other.buffer, &buffer);
inplace_task_move_of(th) ==
  /\ th \in Threads
  /\ BeginRead(th, "move_121_r")

\* ~inplace_task() { oper_ptr->dtor(&buffer); }
destroy_L130(th) ==
  /\ th \in Threads
  /\ BeginRead(th, "dtor_130_r")

\* The read is done and the operation of the table has run: th's container
\* holds what it held (the new container, after a move), or is gone.
read_done(th) ==
  /\ th_pc[th] \in {"call_151_r", "move_121_r", "dtor_130_r"}
  /\ th_pc' = [th_pc EXCEPT ![th] = "idle"]
  /\ th_cont' = [th_cont EXCEPT
                   ![th] = IF th_pc[th] = "dtor_130_r" THEN NoCont ELSE @]
  /\ UNCHANGED <<t_inited, t_fields, t_writes, t_writers, th_T, th_gets, not_tables>>

InitTables ==
  /\ NoConts
  /\ DefaultInstantiation
  /\ NoTables
  /\ AfterStartup
  /\ NewStack

NextTables ==
  \/ \E th \in Threads, T \in TParams : inplace_task_from_L113(th, T)
  \/ \E th \in Threads : get_L58(th)
  \/ \E th \in Threads : get_L59(th)
  \/ \E th \in Threads : get_L59_done(th)
  \/ \E th \in Threads : get_L60(th)
  \/ \E th \in Threads : get_L60_done(th)
  \/ \E th \in Threads : get_L65(th)
  \/ \E th \in Threads : get_L65_done(th)
  \/ \E th \in Threads : inplace_task_from_L114(th)
  \/ \E th \in Threads : operator_call_L151(th)
  \/ \E th \in Threads : inplace_task_move_of(th)
  \/ \E th \in Threads : destroy_L130(th)
  \/ \E th \in Threads : read_done(th)

SpecTables == InitTables /\ [][NextTables]_table_vars

\* ---------------------------------------------------------- program start-up
\* What the other programs own.
not_startup == <<vars, accept_vars, table_vars, stack_vars>>

\* oper_table_t<R, Args...>::empty_oper = oper_table_t<R, Args...>::get_empty();
\* the dynamic initialisation of the static member, unordered with respect to
\* the initialisation of other objects of static storage duration.
init_empty_oper ==
  /\ ~in_main
  /\ empty_oper_ptr = nullptr
  /\ sentinel_built' = TRUE
  /\ empty_oper_ptr' = get_empty
  /\ UNCHANGED <<in_main, g_oper_ptr, g_ub, g_last, not_startup>>

\* Dynamic initialisation is complete; main() starts.
enter_main ==
  /\ ~in_main
  /\ empty_oper_ptr # nullptr
  /\ in_main' = TRUE
  /\ UNCHANGED <<empty_oper_ptr, sentinel_built, g_oper_ptr, g_ub, g_last,
                 not_startup>>

\* inplace_task() noexcept { oper_ptr = oper_table_t::empty_oper; }
\* for an object of static storage duration, or a local one later.
g_inplace_task_default(self) ==
  /\ g_oper_ptr[self] = NoTable
  /\ g_oper_ptr' = [g_oper_ptr EXCEPT ![self] = empty_oper_ptr]
  /\ g_last' = Did("default_ctor", self, "none")
  /\ UNCHANGED <<empty_oper_ptr, sentinel_built, in_main, g_ub, not_startup>>

\* bool is_empty() const { return oper_ptr == oper_table_t::empty_oper; }
g_is_empty(self) ==
  /\ g_oper_ptr[self] # NoTable
  /\ g_last' = Did("is_empty", self,
                   IF g_oper_ptr[self] = empty_oper_ptr THEN "true"
                                                        ELSE "false")
  /\ UNCHANGED <<empty_oper_ptr, sentinel_built, in_main, g_oper_ptr, g_ub,
                 not_startup>>

\* R operator()(Args&&... args) { return oper_ptr->call(&buffer, ...); }
\* through a null oper_ptr the call is undefined.
g_operator_call(self) ==
  /\ g_oper_ptr[self] # NoTable
  /\ IF g_oper_ptr[self] = nullptr
       THEN /\ g_ub' = TRUE
            /\ \E r \in {"none", "bad_function_call"} :
                 g_last' = Did("call", self, r)
       ELSE /\ g_last' = Did("call", self, "bad_function_call")
            /\ UNCHANGED g_ub
  /\ UNCHANGED <<empty_oper_ptr, sentinel_built, in_main, g_oper_ptr,
                 not_startup>>

\* ~inplace_task() { oper_ptr->dtor(&buffer); }
\* through a null oper_ptr the call is undefined.
g_destroy_inplace_task(self) ==
  /\ g_oper_ptr[self] # NoTable
  /\ g_ub' = IF g_oper_ptr[self] = nullptr THEN TRUE ELSE g_ub
  /\ g_oper_ptr' = [g_oper_ptr EXCEPT ![self] = NoTable]
  /\ g_last' = Did("dtor", self, "none")
  /\ UNCHANGED <<empty_oper_ptr, sentinel_built, in_main, not_startup>>

\* Before any dynamic initialisation: static storage is zero-initialised.
InitStartup ==
  /\ NoConts
  /\ DefaultInstantiation
  /\ NoTables
  /\ empty_oper_ptr = nullptr
  /\ sentinel_built = FALSE
  /\ in_main = FALSE
  /\ g_oper_ptr = [c \in Conts |-> NoTable]
  /\ g_ub = FALSE
  /\ g_last = NoOp
  /\ NewStack

NextStartup ==
  \/ init_empty_oper
  \/ enter_main
  \/ \E self \in Conts : g_inplace_task_default(self)
  \/ \E self \in Conts : g_is_empty(self)
  \/ \E self \in Conts : g_operator_call(self)
  \/ \E self \in Conts : g_destroy_inplace_task(self)

SpecStartup == InitStartup /\ [][NextStartup]_startup_vars

\* ------------------------------------------------------------ the test stack
\* What the other programs own.
not_stack == <<vars, accept_vars, table_vars, startup_vars>>

\* The period of the TTI counter.
TTI_PERIOD == 10240

\* srslte::tti_point get_current_tti() override
\*   { return srslte::tti_point{...->get_cur_time() % 10240}; }
get_current_tti(time) == time % TTI_PERIOD

\* task_sched.tic(): the clock advances by one tick.
tic(time) == time + 1

\* task_sched.run_pending_tasks() at the given time: every pending task
\* runs and observes the current TTI; none is pending afterwards.
task_sched_run_pending_tasks(time) ==
  /\ seen' = IF pending > 0 THEN {get_current_tti(time)} ELSE {}
  /\ pending' = 0

\* A test defers a task to the stack's scheduler.
defer_task ==
  /\ pending < MaxPending
  /\ pending' = pending + 1
  /\ seen' = {}
  /\ stack_last' = StackOp("defer_task", cur_time, get_current_tti(cur_time))
  /\ UNCHANGED <<cur_time, not_stack>>

\* Mutant of run_tti: the pending tasks run before the clock is advanced.
run_tti_tasks_first ==
  /\ cur_time < MaxTime
  /\ task_sched_run_pending_tasks(cur_time)
  /\ cur_time' = tic(cur_time)
  /\ stack_last' = StackOp("run_tti", cur_time, get_current_tti(cur_time))
  /\ UNCHANGED not_stack

\* void run_tti() { task_sched.tic(); task_sched.run_pending_tasks(); }
run_tti ==
  /\ cur_time < MaxTime
  /\ cur_time' = tic(cur_time)
  /\ task_sched_run_pending_tasks(tic(cur_time))
  /\ stack_last' = StackOp("run_tti", cur_time, get_current_tti(cur_time))
  /\ UNCHANGED not_stack

\* void run_pending_tasks() { task_sched.run_pending_tasks(); }
run_pending_tasks ==
  /\ task_sched_run_pending_tasks(cur_time)
  /\ stack_last' = StackOp("run_pending_tasks", cur_time,
                           get_current_tti(cur_time))
  /\ UNCHANGED <<cur_time, not_stack>>

InitStack ==
  /\ NoConts
  /\ DefaultInstantiation
  /\ NoTables
  /\ AfterStartup
  /\ NewStack

NextStack ==
  \/ defer_task
  \/ run_tti
  \/ run_pending_tasks

SpecStack == InitStack /\ [][NextStack]_stack_vars

\* ------------------------------------------------------------- properties
\* The containers an operation was called on, and the state it started from.
Self == call.self
Other == call.other
AtStart == call.pre

\* The payloads that were live when the last operation started, and those
\* among them whose lifetime that operation ended.
PreLive == {AtStart.buffer[s].pid : s \in Slots} \ {NoObj.pid}
Ended == PreLive \ LivePids

NoneAlive == \A c \in Conts : ~alive[c]

\* Container c's slot agrees with the table c is bound to.
SlotAgrees(c) ==
  IF oper_ptr[c] = empty_oper
    THEN buffer[c] = NoObj
    ELSE /\ oper_ptr[c] \in Tables
         /\ buffer[c] # NoObj
         /\ buffer[c].type = oper_ptr[c].type

\* C1: between operations, every container's slot agrees with its table: a
\* container bound to the empty sentinel holds no live object, any other
\* container holds one live object of the type its table was built for.
C1_SlotAgreesWithTable == Idle => \A c \in Conts : alive[c] => SlotAgrees(c)

C1_Witness ==
  /\ Idle
  /\ call.op = "move_assign"
  /\ Self # Other
  /\ AtStart.buffer[Self] # NoObj
  /\ ~is_empty(Self)
  /\ is_empty(Other)

\* C2 as stated: once every container is destroyed, the destructor counter of
\* a payload whose lifetime ended stands at exactly one.
C2_CounterIsOne ==
  (Idle /\ NoneAlive) => \A p \in Ended : counter[p] = 1

\* C2, amended: a payload whose lifetime ended was destroyed by exactly one
\* dtor operation and was not leaked; its destructor ran once more for each
\* relocation, on the relocated-from object, so the counter stands at one
\* plus the number of relocations.
C2_DestroyedOnce ==
  Idle => \A p \in Ended :
            /\ dtor_calls[p] = 1
            /\ counter[p] = 1 + reloc_calls[p]
            /\ p \notin leaked

C2_Witness ==
  /\ Idle
  /\ NoneAlive
  /\ \E p \in Ended : counter[p] = 2

\* C3: no dtor or move operation of a payload type is applied to a slot that
\* holds no live object of that type, no relocation overwrites a live object,
\* and once every container is destroyed no slot holds a live object.
C3_ExactOwnership ==
  /\ ~ub
  /\ leaked = {}
  /\ (Idle /\ NoneAlive) => \A s \in Slots : buffer[s] = NoObj

C3_Witness ==
  /\ Idle
  /\ NoneAlive
  /\ call.op = "dtor"
  /\ AtStart.buffer[Self] # NoObj
  /\ reloc_calls[AtStart.buffer[Self].pid] = MaxRelocs

\* C4: after move-construction or move-assignment between distinct
\* containers the source is empty and the destination holds the table and
\* the payload the source held; destroying an empty container touches no
\* payload.
C4_MoveEmptiesSource ==
  /\ (Idle /\ call.op \in {"move_ctor", "move_assign"} /\ Self # Other) =>
       /\ is_empty(Other)
       /\ buffer[Other] = NoObj
       /\ oper_ptr[Self] = AtStart.oper_ptr[Other]
       /\ buffer[Self] = AtStart.buffer[Other]
  /\ (Idle /\ call.op = "dtor" /\ AtStart.oper_ptr[Self] = empty_oper) =>
       /\ buffer = AtStart.buffer
       /\ counter = AtStart.counter

C4_Witness ==
  /\ Idle
  /\ call.op = "move_ctor"
  /\ AtStart.buffer[Other] # NoObj
  /\ ~is_empty(Self)
  /\ is_empty(Other)

\* C5: invoking an empty container throws std::bad_function_call and changes
\* neither that container nor any other; a default-constructed container is
\* empty.
C5_EmptyCallThrows ==
  /\ (Idle /\ call.op = "call" /\ AtStart.oper_ptr[Self] = empty_oper) =>
       /\ call.result = bad_function_call
       /\ is_empty(Self)
       /\ oper_ptr = AtStart.oper_ptr
       /\ buffer = AtStart.buffer
       /\ counter = AtStart.counter
  /\ (Idle /\ call.op = "default_ctor") => is_empty(Self)

C5_Witness ==
  /\ Idle
  /\ call.op = "call"
  /\ call.result = bad_function_call
  /\ \E c \in Conts : c # Self /\ alive[c] /\ ~is_empty(c)

\* The payload whose twin is in lockstep with it: same captured value.
InLockstep(s) == buffer[s] # NoObj => buffer[s].val = direct[buffer[s].pid]

\* C6: a container constructed from f and invoked returns (or throws) what f
\* called directly returns (or throws) and leaves the stored callable as the
\* direct call leaves f; the invocation changes no table pointer and no other
\* slot, and the slot still holds the same payload.
C6_CallIsDirectCall ==
  /\ Idle => \A c \in Conts : alive[c] => InLockstep(c)
  /\ (Idle /\ call.op = "payload_ctor") =>
       /\ buffer[Self] # NoObj
       /\ buffer[Self].val = Callables[buffer[Self].pid].val
       /\ oper_ptr[Self] = get(Callables[buffer[Self].pid].T)
  /\ (Idle /\ call.op = "call" /\ AtStart.oper_ptr[Self] # empty_oper) =>
       /\ call.result # NoResult
       /\ call.result = call.direct_result
       /\ oper_ptr = AtStart.oper_ptr
       /\ buffer[Self].pid = AtStart.buffer[Self].pid
       /\ buffer[Self].type = AtStart.buffer[Self].type
       /\ \A s \in Slots \ {Self} : buffer[s] = AtStart.buffer[s]
       /\ counter = AtStart.counter

C6_Witness ==
  /\ Idle
  /\ call.op = "call"
  /\ call.arg = 1
  /\ call.result = Returned(3)
  /\ buffer[Self].type = "G"
  /\ buffer[Self].val # AtStart.buffer[Self].val

\* What invoking a container bound to table t with obj in its slot gives.
Invoking(t, obj, arg) ==
  {r.result : r \in table_call(t, Tmp, arg, [Mem EXCEPT !.buffer[Tmp] = obj])}

\* C7: after swap of two distinct containers each holds the table and the
\* payload the other held before, so each answers a call as the other did.
C7_SwapExchanges ==
  (Idle /\ call.op = "swap" /\ Self # Other) =>
    /\ oper_ptr[Self] = AtStart.oper_ptr[Other]
    /\ buffer[Self] = AtStart.buffer[Other]
    /\ oper_ptr[Other] = AtStart.oper_ptr[Self]
    /\ buffer[Other] = AtStart.buffer[Self]
    /\ \A arg \in Args :
         /\ Invoking(oper_ptr[Self], buffer[Self], arg)
              = Invoking(AtStart.oper_ptr[Other], AtStart.buffer[Other], arg)
         /\ Invoking(oper_ptr[Other], buffer[Other], arg)
              = Invoking(AtStart.oper_ptr[Self], AtStart.buffer[Self], arg)

C7_Witness ==
  /\ Idle
  /\ call.op = "swap"
  /\ Self # Other
  /\ buffer[Self] # NoObj
  /\ buffer[Other] # NoObj
  /\ oper_ptr[Self] # oper_ptr[Other]
  /\ Invoking(oper_ptr[Self], buffer[Self], 0) = {Returned(2)}
  /\ Invoking(oper_ptr[Other], buffer[Other], 0) = {Returned(1)}

\* The slots holding payload p.
Where(p) == {s \in Slots : buffer[s].pid = p}

\* C8: while swap of two distinct containers runs, and when it has returned,
\* every payload is live in exactly one slot with its value intact, none has
\* been destroyed by a dtor operation, every relocation found a live object
\* of its table's type and a vacant destination, the payloads are where the
\* three relocations put them, and tmp is vacant at the end.
C8_SwapOnlyRelocates ==
  (call.op = "swap" /\ Self # Other) =>
    /\ LivePids = PreLive
    /\ \A p \in PreLive : Cardinality(Where(p)) = 1
    /\ \A s \in Slots : buffer[s] # NoObj =>
         \E s0 \in Slots : AtStart.buffer[s0] = buffer[s]
    /\ dtor_calls = AtStart.dtor_calls
    /\ ~ub
    /\ leaked = {}
    /\ pc = "swap_161" => buffer = AtStart.buffer
    /\ pc = "swap_162" => /\ buffer[Tmp] = AtStart.buffer[Self]
                          /\ buffer[Self] = NoObj
                          /\ buffer[Other] = AtStart.buffer[Other]
    /\ pc = "swap_163" => /\ buffer[Tmp] = AtStart.buffer[Self]
                          /\ buffer[Self] = AtStart.buffer[Other]
                          /\ buffer[Other] = NoObj
    /\ pc \in {"swap_164", "idle"} => /\ buffer[Tmp] = NoObj
                                      /\ buffer[Self] = AtStart.buffer[Other]
                                      /\ buffer[Other] = AtStart.buffer[Self]

C8_Witness ==
  /\ pc = "swap_163"
  /\ buffer[Tmp] # NoObj
  /\ buffer[Self] # NoObj
  /\ buffer[Tmp].type # buffer[Self].type

\* C9: swapping a container with itself changes no table pointer and no
\* slot, and runs no relocation and no destructor.
C9_SelfSwapNoOp ==
  (Idle /\ call.op = "swap" /\ Self = Other) =>
    /\ oper_ptr = AtStart.oper_ptr
    /\ buffer = AtStart.buffer
    /\ reloc_calls = AtStart.reloc_calls
    /\ dtor_calls = AtStart.dtor_calls
    /\ counter = AtStart.counter
    /\ ~ub

C9_Witness ==
  /\ Idle
  /\ call.op = "swap"
  /\ Self = Other
  /\ ~is_empty(Self)
  /\ \E c \in Conts : c # Self /\ alive[c]

\* The payload the destination of the running move-assignment held.
Old == AtStart.buffer[Self]

\* C10: move-assignment between distinct containers first destroys the
\* destination's payload, once, while the destination is still bound to its
\* own table and the source is untouched; only then does it adopt the
\* source's table, reset the source and relocate the source's payload.  No
\* other payload is destroyed, and an empty source leaves the destination
\* empty.
C10_AssignDestroysFirst ==
  (call.op = "move_assign" /\ Self # Other) =>
    /\ ~ub
    /\ \A p \in Pids :
         dtor_calls[p] = AtStart.dtor_calls[p]
                           + (IF Old # NoObj /\ p = Old.pid THEN 1 ELSE 0)
    /\ pc = "assign_135" => /\ oper_ptr = AtStart.oper_ptr
                            /\ buffer[Self] = NoObj
                            /\ buffer[Other] = AtStart.buffer[Other]
    /\ pc = "assign_136" => /\ oper_ptr[Self] = AtStart.oper_ptr[Other]
                            /\ oper_ptr[Other] = AtStart.oper_ptr[Other]
                            /\ buffer[Self] = NoObj
                            /\ buffer[Other] = AtStart.buffer[Other]
    /\ pc = "assign_137" => /\ oper_ptr[Self] = AtStart.oper_ptr[Other]
                            /\ oper_ptr[Other] = empty_oper
                            /\ buffer[Self] = NoObj
                            /\ buffer[Other] = AtStart.buffer[Other]
    /\ Idle => /\ oper_ptr[Self] = AtStart.oper_ptr[Other]
               /\ buffer[Self] = AtStart.buffer[Other]
               /\ buffer[Other] = NoObj
               /\ AtStart.oper_ptr[Other] = empty_oper =>
                    is_empty(Self) /\ buffer[Self] = NoObj

C10_Witness ==
  /\ pc = "assign_135"
  /\ Self # Other
  /\ Old # NoObj
  /\ buffer[Other] # NoObj
  /\ dtor_calls[Old.pid] = 1

\* The statement pc points at can run: the operation in progress goes on.
StepEnabled ==
  ENABLED (\/ inplace_task_move_L120 \/ inplace_task_move_L121
           \/ operator_assign_L135 \/ operator_assign_L136
           \/ operator_assign_L137
           \/ swap_L161 \/ swap_L162 \/ swap_L163 \/ swap_L164)

C12_AcceptedIffWithinCapacity ==
  built # "none" =>
    /\ sizeof_storage(Capacity, Alignment) = Capacity
    /\ built = "accepted" <=>
         (FunT.size <= Capacity /\ Alignment % FunT.align = 0)

\* C12, amended: the storage slot holds at least Capacity and fewer than
\* Capacity + Alignment bytes and is exactly Capacity bytes when Capacity is
\* a multiple of Alignment.  A payload type whose size is at most Capacity
\* and whose alignment divides Alignment is accepted; an accepted payload
\* type fits the slot and its alignment divides Alignment; a payload type
\* larger than Capacity is accepted only when Capacity is no multiple of
\* Alignment, and no payload type of Capacity + Alignment bytes or more is.
C12_AcceptedIffFitsStorage ==
  LET slot == sizeof_storage(Capacity, Alignment)
      fits == FunT.size <= Capacity /\ Alignment % FunT.align = 0
  IN  /\ slot >= Capacity
      /\ slot < Capacity + Alignment
      /\ slot % Alignment = 0
      /\ built # "none" =>
           /\ fits => built = "accepted"
           /\ built = "accepted" => /\ FunT.size <= slot
                                    /\ Alignment % FunT.align = 0
                                    /\ FunT.size < Capacity + Alignment
           /\ (built = "accepted" /\ FunT.size > Capacity) =>
                Capacity % Alignment # 0
           /\ Capacity % Alignment = 0 => (built = "accepted" <=> fits)

C12_Witness ==
  /\ built = "accepted"
  /\ FunT.size > Capacity
  /\ Capacity = 10
  /\ Alignment = 8

\* The tables built so far for template arguments that store payload type ty.
TablesOf(ty) == {T \in TParams : T.type = ty /\ t_inited[T]}

\* C13 as stated: there is one table per payload type, each of its fields is
\* written once and not again by a later construction, and the containers
\* holding one payload type are all bound to the same table.
C13_OneTableBuiltOnce ==
  /\ \A T \in TParams : Cardinality(TablesOf(T.type)) <= 1
  /\ \A T \in TParams : \A f \in Fields : t_writes[T][f] <= 1
  /\ \A a \in Threads, b \in Threads :
       (/\ th_pc[a] = "idle"
        /\ th_pc[b] = "idle"
        /\ th_cont[a] # NoCont
        /\ th_cont[a].stored = th_cont[b].stored) =>
         th_cont[a].oper_ptr = th_cont[b].oper_ptr

\* Two threads are in the middle of accesses to the same field of the same
\* table, one of them an assignment.
Race ==
  \E a \in Threads, b \in Threads :
    /\ a # b
    /\ Access(a) # NoAccess
    /\ Access(b) # NoAccess
    /\ Access(a).table = Access(b).table
    /\ Access(a).field = Access(b).field
    /\ Access(a).kind = "write"

\* A thread is reading a field no assignment has been made to.
ReadsUnwritten ==
  \E a \in Threads :
    /\ Access(a).kind = "read"
    /\ t_fields[Access(a).table][Access(a).field] = "null"

\* C14 as stated: a field of a table is assigned by at most one thread, once,
\* and no thread reads a field while another assigns it or before it was
\* assigned.
C14_TableInitIsSafe ==
  /\ \A T \in TParams : \A f \in Fields :
       /\ Cardinality(t_writers[T][f]) <= 1
       /\ t_writes[T][f] <= 1
  /\ ~Race
  /\ ~ReadsUnwritten

\* C15 as stated: the table pointer of every existing container, whenever
\* during start-up it was default-constructed, is not null and refers to the
\* built sentinel, and is_empty() answers true exactly when it does.
C15_NeverNull ==
  /\ \A c \in Conts : g_oper_ptr[c] # NoTable =>
       /\ g_oper_ptr[c] # nullptr
       /\ g_oper_ptr[c] = get_empty
       /\ sentinel_built
  /\ g_last.op = "is_empty" =>
       (g_last.result = "true" <=> g_oper_ptr[g_last.self] = get_empty)

\* C16 as stated: the move constructor resets the source only after the
\* relocation: when the relocation is about to run the source is still bound
\* to the table it had, and once the source's table has changed the payload
\* is in the destination's slot.
C16_ResetsSourceLast ==
  call.op = "move_ctor" =>
    /\ pc = "move_ctor_121" => oper_ptr[Other] = AtStart.oper_ptr[Other]
    /\ oper_ptr[Other] # AtStart.oper_ptr[Other] =>
         buffer[Self] = AtStart.buffer[Other]

\* C16, amended: the move constructor adopts the source's table pointer,
\* then resets the source to the sentinel, and only then relocates the
\* source's slot contents into its own slot through the adopted table: while
\* the relocation runs the source is already bound to the sentinel and its
\* slot still holds the payload.  At the end the destination holds the table
\* and the payload, relocated once, and the source is empty.
C16_ResetsSourceBeforeRelocating ==
  call.op = "move_ctor" =>
    /\ ~ub
    /\ oper_ptr[Self] = AtStart.oper_ptr[Other]
    /\ pc = "move_ctor_120" => /\ oper_ptr[Other] = AtStart.oper_ptr[Other]
                               /\ buffer = AtStart.buffer
    /\ pc = "move_ctor_121" => /\ oper_ptr[Other] = empty_oper
                               /\ buffer = AtStart.buffer
    /\ Idle => /\ oper_ptr[Other] = empty_oper
               /\ buffer[Self] = AtStart.buffer[Other]
               /\ buffer[Other] = NoObj
               /\ \A p \in Pids :
                    reloc_calls[p] =
                      AtStart.reloc_calls[p]
                        + (IF p = AtStart.buffer[Other].pid THEN 1 ELSE 0)

C16_Witness ==
  /\ call.op = "move_ctor"
  /\ pc = "move_ctor_121"
  /\ buffer[Other] # NoObj
  /\ oper_ptr[Other] = empty_oper
  /\ oper_ptr[Self] = get(Callables[buffer[Other].pid].T)

\* C17 as stated: when a container has been constructed from a payload, the
\* construction builds for every value category of the argument, every one
\* of them binds the table the container is bound to, and every container
\* storing an object of that type is bound to that table.
C17_AnyCategorySameTable ==
  (Idle /\ call.op = "payload_ctor") =>
    LET ty == buffer[Self].type
    IN  /\ \A vc \in ValueCategories :
             /\ get_builds(Deduced(ty, vc))
             /\ get(Deduced(ty, vc)) = oper_ptr[Self]
        /\ \A c \in Conts :
             (alive[c] /\ buffer[c].type = ty) => oper_ptr[c] = oper_ptr[Self]

\* C18: move-assignment of a container to itself destroys the payload it
\* holds exactly once, applies no relocation to the destroyed slot or to any
\* other, touches no other container, and ends with the container empty:
\* bound to the sentinel, no live object in its slot.  On an empty container
\* it changes nothing.
C18_SelfAssignEndsEmpty ==
  (call.op = "move_assign" /\ Self = Other) =>
    /\ ~ub
    /\ leaked = {}
    /\ reloc_calls = AtStart.reloc_calls
    /\ \A p \in Pids :
         LET once == IF Old # NoObj /\ p = Old.pid THEN 1 ELSE 0
         IN  /\ dtor_calls[p] = AtStart.dtor_calls[p] + once
             /\ counter[p] = AtStart.counter[p] + once
    /\ buffer[Self] = NoObj
    /\ \A s \in Slots \ {Self} : buffer[s] = AtStart.buffer[s]
    /\ \A c \in Conts \ {Self} : oper_ptr[c] = AtStart.oper_ptr[c]
    /\ Idle => is_empty(Self) /\ SlotAgrees(Self)
    /\ AtStart.oper_ptr[Self] = empty_oper =>
         /\ oper_ptr = AtStart.oper_ptr
         /\ buffer = AtStart.buffer
         /\ counter = AtStart.counter

C18_Witness ==
  /\ Idle
  /\ call.op = "move_assign"
  /\ Self = Other
  /\ Old # NoObj
  /\ AtStart.oper_ptr[Self] = get(Callables[Old.pid].T)
  /\ is_empty(Self)
  /\ dtor_calls[Old.pid] = 1
  /\ \E c \in Conts : c # Self /\ alive[c] /\ ~is_empty(c)

\* The TTI the test stack reports now.
CurrentTti == get_current_tti(cur_time)

====
